---- MODULE Spec2Model ----
(***************************************************************************)
(* tlaplus-workbench: the TLC runner (scripts/tlc_check.py) and the        *)
(* counterexample trace summarizer (scripts/tlc_trace_summary.py).         *)
(*                                                                         *)
(* JSON-like values are tagged records [t |-> tag, v |-> payload]:         *)
(*   null  -> [t |-> "null", v |-> 0]      (Python None)                   *)
(*   bool  -> [t |-> "bool", v |-> TRUE]                                   *)
(*   int   -> [t |-> "int",  v |-> 3]                                      *)
(*   str   -> [t |-> "str",  v |-> "a"]                                    *)
(*   list  -> [t |-> "list", v |-> <<...>>]                                *)
(*   dict  -> [t |-> "dict", v |-> function from key strings to values]    *)
(* JSON numbers in the model are integers.                                 *)
(***************************************************************************)
EXTENDS Integers, Sequences, FiniteSets, TLC

VARIABLES
    a, b, eq,                    \* _deep_equal: the two operands, the answer
    doc, max_steps, out,         \* summarizer: document, cap, summary or failure
    pc,                          \* runner: position in _cmd
    args,                        \* runner: command line and environment
    files,                       \* runner: paths that are existing files
    run_dir,                     \* runner: state of the run directory
    child,                       \* runner: the child process
    elapsed,                     \* runner: seconds waited on the child
    trace_file,                  \* runner: contents of counterexample.json
    timed_out, exit_code,        \* runner: locals of _cmd
    jar_path,                    \* runner: the jar found
    manifest, stdout, stderr,    \* runner: summary.json, the standard streams
    rc                           \* runner: the process exit code

eqVars  == <<a, b, eq>>
sumVars == <<doc, max_steps, out>>
runVars == <<pc, args, files, run_dir, child, elapsed, trace_file, jar_path,
             timed_out, exit_code, manifest, stdout, stderr, rc>>
vars    == <<eqVars, sumVars, runVars>>

-----------------------------------------------------------------------------
(* JSON-like values *)

JNull    == [t |-> "null", v |-> 0]
JBool(x) == [t |-> "bool", v |-> x]
JInt(n)  == [t |-> "int",  v |-> n]
JStr(s)  == [t |-> "str",  v |-> s]
JList(s) == [t |-> "list", v |-> s]
JDict(f) == [t |-> "dict", v |-> f]

EmptyMap == [k \in {} |-> JNull]

\* Python None
None == JNull

IsDict(x) == x.t = "dict"
IsList(x) == x.t = "list"
\* isinstance(x, int): bool is a subclass of int in Python
IsInt(x)  == x.t \in {"int", "bool"}

\* The integer a Python int or bool compares, sorts and hashes as
NumVal(x) == IF x.t = "bool" THEN (IF x.v THEN 1 ELSE 0) ELSE x.v

\* d.get(k) on the payload of a dict: None when the key is missing
Get(d, k) == IF k \in DOMAIN d THEN d[k] ELSE None

\* Python's == on JSON-like values: numbers (bool included) compare by value,
\* lists elementwise, dicts by key set and value per key
RECURSIVE PyEq(_, _)
PyEq(x, y) ==
    IF IsInt(x) /\ IsInt(y) THEN NumVal(x) = NumVal(y)
    ELSE IF x.t # y.t THEN FALSE
    ELSE CASE x.t = "null" -> TRUE
           [] x.t = "str"  -> x.v = y.v
           [] x.t = "list" -> /\ Len(x.v) = Len(y.v)
                              /\ \A i \in 1..Len(x.v) : PyEq(x.v[i], y.v[i])
           [] x.t = "dict" -> /\ DOMAIN x.v = DOMAIN y.v
                              /\ \A k \in DOMAIN x.v : PyEq(x.v[k], y.v[k])

\* _deep_equal: type(a) is type(b) at the top level, then ==.
\* Every JSON-like value is a dict, list, str, int, bool or None, so the
\* _stable_json comparison of line 42 is never reached.
_deep_equal(x, y) ==
    IF x.t # y.t THEN FALSE ELSE PyEq(x, y)

\* Structural equality, the measure of the claims: same type and same content
\* at every nesting level
RECURSIVE StructEq(_, _)
StructEq(x, y) ==
    IF x.t # y.t THEN FALSE
    ELSE CASE x.t = "list" -> /\ Len(x.v) = Len(y.v)
                              /\ \A i \in 1..Len(x.v) : StructEq(x.v[i], y.v[i])
           [] x.t = "dict" -> /\ DOMAIN x.v = DOMAIN y.v
                              /\ \A k \in DOMAIN x.v : StructEq(x.v[k], y.v[k])
           [] OTHER        -> x.v = y.v

-----------------------------------------------------------------------------
(* Inputs of _deep_equal *)

MaxLen == 2

Atoms == {JNull, JBool(TRUE), JBool(FALSE), JInt(0), JInt(1), JStr("a")}

SeqsUpTo(S, n) == UNION {[1..m -> S] : m \in 0..n}

MapsOver(K, S) == UNION {[D -> S] : D \in SUBSET K}

Level1 == {JList(s) : s \in SeqsUpTo(Atoms, MaxLen)}
            \cup {JDict(f) : f \in MapsOver({"p", "q"}, Atoms)}

Level2 == {JList(<<c>>) : c \in Level1} \cup {JDict([k \in {"p"} |-> c]) : c \in Level1}

EqValues == Atoms \cup Level1 \cup Level2

-----------------------------------------------------------------------------
(* tlc_trace_summary.py *)

IsNone(x) == x.t = "null"

Raise(kind) == [t |-> "error", v |-> kind]
IsError(x)  == x.t = "error"

\* _parse_state_tuple: (item[0], item[1]) of a list of at least two elements
\* that starts with an int and a dict, else None
_parse_state_tuple(item) ==
    IF IsList(item) /\ Len(item.v) >= 2 /\ IsInt(item.v[1]) /\ IsDict(item.v[2])
    THEN [t |-> "tuple", v |-> <<item.v[1], item.v[2]>>]
    ELSE None

\* _extract_counterexample
_extract_counterexample(d) ==
    IF IsDict(d) /\ "counterexample" \in DOMAIN d.v /\ IsDict(d.v["counterexample"])
    THEN d.v["counterexample"]
    ELSE IF IsDict(d) THEN d
    ELSE Raise("MalformedInput")

\* for it in raw_states: keep what parses, in raw order
RECURSIVE ParseStates(_)
ParseStates(raw) ==
    IF raw = <<>> THEN <<>>
    ELSE LET st == _parse_state_tuple(Head(raw))
         IN  IF IsNone(st) THEN ParseStates(Tail(raw))
             ELSE <<st>> \o ParseStates(Tail(raw))

\* list.sort(key=lambda t: t[0]) is stable: an element goes after every
\* element whose key is not greater
RECURSIVE InsertByKey(_, _)
InsertByKey(sorted, e) ==
    IF sorted = <<>> THEN <<e>>
    ELSE IF NumVal(e.v[1]) < NumVal(Head(sorted).v[1]) THEN <<e>> \o sorted
    ELSE <<Head(sorted)>> \o InsertByKey(Tail(sorted), e)

RECURSIVE SortByStateNumber(_)
SortByStateNumber(s) ==
    IF s = <<>> THEN <<>>
    ELSE InsertByKey(SortByStateNumber(SubSeq(s, 1, Len(s) - 1)), s[Len(s)])

\* mutant: a self-loop is not a lasso edge
IsLassoStrict(from_n, to_n) == NumVal(to_n) < NumVal(from_n)

\* to_n <= from_n
IsLasso(from_n, to_n) == NumVal(to_n) <= NumVal(from_n)

\* mutant: the last edge to a state number wins
SetDefaultOverwrite(m, k, val) == [x \in DOMAIN m \cup {k} |-> IF x = k THEN val ELSE m[x]]

\* dict.setdefault(k, val): the first mapping of k stays
SetDefault(m, k, val) == IF k \in DOMAIN m THEN m ELSE m @@ (k :> val)

\* One iteration of `for edge in raw_actions`
IndexEdge(acc, edge) ==
    IF ~(IsList(edge) /\ Len(edge.v) >= 3) THEN acc
    ELSE LET from_st == _parse_state_tuple(edge.v[1])
             to_st   == _parse_state_tuple(edge.v[3])
         IN  IF IsNone(from_st) \/ IsNone(to_st) THEN acc
             ELSE LET from_n == from_st.v[1]
                      to_n   == to_st.v[1]
                      action == IF IsDict(edge.v[2]) THEN edge.v[2]
                                ELSE JDict([k \in {"_raw"} |-> edge.v[2]])
                  IN  IF IsLasso(from_n, to_n)
                      THEN [acc EXCEPT !.lasso_edges = Append(@,
                               [from |-> from_n, to |-> to_n, action |-> action])]
                      ELSE [acc EXCEPT !.action_by_to = SetDefault(@, NumVal(to_n),
                               [from |-> from_n, action |-> action])]

RECURSIVE IndexEdges(_, _)
IndexEdges(acc, raw) ==
    IF raw = <<>> THEN acc ELSE IndexEdges(IndexEdge(acc, Head(raw)), Tail(raw))

\* action_by_to and lasso_edges after the loop over ce.get("action")
IndexActions(raw_actions) ==
    LET empty == [action_by_to |-> EmptyMap, lasso_edges |-> <<>>]
    IN  IF IsList(raw_actions) THEN IndexEdges(empty, raw_actions.v) ELSE empty

\* Variable names in alphabetical order
KeyOrder == <<"x", "y">>

\* sorted(keys)
Sorted(S) == SelectSeq(KeyOrder, LAMBDA k : k \in S)

\* changed_vars of one step
Changed(prev_state, state) ==
    IF IsNone(prev_state) THEN Sorted(DOMAIN state.v)
    ELSE Sorted({k \in DOMAIN prev_state.v \cup DOMAIN state.v :
                    ~_deep_equal(Get(prev_state.v, k), Get(state.v, k))})

\* mutant: off by one
CapReachedLate(steps, cap) == ~IsNone(cap) /\ Len(steps) > cap.v

\* max_steps is not None and len(steps) >= max_steps
CapReached(steps, cap) == ~IsNone(cap) /\ Len(steps) >= cap.v

\* for i, (state_num, state) in enumerate(parsed_states, start=1)
RECURSIVE BuildSteps(_, _, _, _, _, _)
BuildSteps(parsed_states, i, prev_state, steps, action_by_to, cap) ==
    IF i > Len(parsed_states) THEN steps
    ELSE LET state_num  == parsed_states[i].v[1]
             state      == parsed_states[i].v[2]
             action_rec == IF NumVal(state_num) \in DOMAIN action_by_to
                           THEN action_by_to[NumVal(state_num)].action
                           ELSE None
             steps2     == Append(steps, [idx          |-> i,
                                          state_number |-> state_num,
                                          action       |-> action_rec,
                                          changed_vars |-> Changed(prev_state, state)])
         IN  IF CapReached(steps2, cap) THEN steps2
             ELSE BuildSteps(parsed_states, i + 1, state, steps2, action_by_to, cap)

\* mutant: an empty trace is summarized
NoParsedStatesNever(parsed_states) == FALSE

\* if not parsed_states
NoParsedStates(parsed_states) == parsed_states = <<>>

summarize_counterexample_json(d, cap) ==
    LET ce == _extract_counterexample(d)
    IN  IF IsError(ce) THEN ce
        ELSE LET raw_states == Get(ce.v, "state")
             IN  IF ~IsList(raw_states) THEN Raise("MalformedInput")
                 ELSE LET unsorted == ParseStates(raw_states.v)
                      IN  IF NoParsedStates(unsorted) THEN Raise("EmptyTrace")
                          ELSE LET parsed_states == SortByStateNumber(unsorted)
                                   idx   == IndexActions(Get(ce.v, "action"))
                                   steps == BuildSteps(parsed_states, 1, None, <<>>,
                                                       idx.action_by_to, cap)
                               IN  [t |-> "summary",
                                    v |-> [states_total  |-> Len(parsed_states),
                                           steps_emitted |-> Len(steps),
                                           steps         |-> steps,
                                           lasso_edges   |-> idx.lasso_edges]]

-----------------------------------------------------------------------------
(* Inputs of the summarizer *)

MaxStates     == 3
MaxEdgeStates == 2
MaxEdges      == 3
MaxCap        == 2

StateNums == {1, 2}

Pending == [t |-> "pending", v |-> 0]

\* {"state": ..., "action": ...}; a field that is None here is left out
Document(state_field, action_field) ==
    JDict([k \in {f \in {"state", "action"} :
                    ~IsNone(IF f = "state" THEN state_field ELSE action_field)}
             |-> IF k = "state" THEN state_field ELSE action_field])

StateRecord(n, m) == JList(<<JInt(n), JDict(m)>>)

\* Variable values of the documents whose changed_vars are looked at
DiffValues == {JNull, JInt(1), JList(<<JInt(1)>>), JList(<<JBool(TRUE)>>)}

DiffRecords == {StateRecord(n, m) : n \in StateNums, m \in MapsOver({"x", "y"}, DiffValues)}

\* Edges: well-formed ones between the state numbers, with object and
\* non-object payloads, and malformed ones
PlainRecord(n) == StateRecord(n, [k \in {"x"} |-> JInt(n)])

Payloads == {JDict([k \in {"name"} |-> JStr("A")]), JStr("raw")}

EdgeItems ==
    {JList(<<PlainRecord(f), p, PlainRecord(g)>>) : f \in StateNums, g \in StateNums, p \in Payloads}
      \cup {JStr("edge"),
            JList(<<PlainRecord(1), JStr("raw")>>),
            JList(<<JStr("s1"), JStr("raw"), PlainRecord(2)>>)}

\* State elements: records, records with more or odd elements, and elements
\* that are no record
StateItems ==
    {PlainRecord(n) : n \in StateNums}
      \cup {JList(<<JInt(1), JDict(EmptyMap), JStr("extra")>>),
            JList(<<JBool(TRUE), JDict(EmptyMap)>>),
            JList(<<JStr("1"), JDict(EmptyMap)>>),
            JList(<<JInt(1), JStr("vars")>>),
            JList(<<JInt(1)>>),
            JStr("junk")}

ActionFields ==
    {None, JStr("actions"),
     JList(<<JList(<<PlainRecord(1), JNull, PlainRecord(2)>>), JInt(7)>>)}

\* The document itself, wrapped under "counterexample", beside a
\* "counterexample" that is no object, or no object at all
Wrappings(d) ==
    {d,
     JDict([k \in {"counterexample"} |-> d]),
     JDict([k \in {"counterexample", "state"} |->
               IF k = "state" THEN JList(<<PlainRecord(1)>>) ELSE d]),
     JDict([k \in DOMAIN d.v \cup {"counterexample"} |->
               IF k = "counterexample" THEN JStr("none") ELSE d.v[k]]),
     JList(<<d>>)}

Caps == {None} \cup {JInt(k) : k \in 0..MaxCap}

-----------------------------------------------------------------------------
(* Specifications of the pure functions *)

EqIdle  == a = None /\ b = None /\ eq = "idle"
SumIdle == doc = None /\ max_steps = None /\ out = None

\* _deep_equal(a, b)
Compare ==
    /\ eq = "pending"
    /\ eq' = IF _deep_equal(a, b) THEN "equal" ELSE "different"
    /\ UNCHANGED <<a, b, sumVars, runVars>>

\* summarize_counterexample_json(doc, max_steps=max_steps)
Summarize ==
    /\ out.t = "pending"
    /\ out' = summarize_counterexample_json(doc, max_steps)
    /\ UNCHANGED <<doc, max_steps, eqVars, runVars>>

-----------------------------------------------------------------------------
(* tlc_check.py *)

MaxTimeout == 2
MaxRun     == 3

ExitPass        == 0
ExitInputError  == 2
ExitFail        == 10
ExitTimeout     == 11
ExitError       == 12
TimeoutExitCode == 124
\* An exception that leaves _cmd ends the interpreter with a traceback
UnhandledExit   == 1
DefaultTraceMaxSteps == 50

SpecPath == "Foo.tla"
CfgPath  == "Foo.cfg"
CliJar   == "cli/tla2tools.jar"
EnvJar   == "env/tla2tools.jar"
NoPath   == "<none>"

\* guesses: spec_dir, spec_dir/dist, cwd, then the build output under each
\* parent of spec_dir (one parent here)
Guesses == <<"spec_dir/tla2tools.jar", "spec_dir/dist/tla2tools.jar",
             "cwd/tla2tools.jar", "spec_dir/tlatools/org.lamport.tlatools/dist/tla2tools.jar">>

AllPaths == {SpecPath, CfgPath, CliJar, EnvJar} \cup {Guesses[i] : i \in DOMAIN Guesses}

\* for g in guesses: if g.is_file(): return g
RECURSIVE FirstFile(_, _)
FirstFile(gs, fs) ==
    IF gs = <<>> THEN NoPath
    ELSE IF Head(gs) \in fs THEN Head(gs)
    ELSE FirstFile(Tail(gs), fs)

\* mutant: a missing --jar falls through to the environment and the guesses
FindJarFallThrough(explicit, env, fs) ==
    IF explicit # "" /\ explicit \in fs THEN explicit
    ELSE IF env # "" /\ env \in fs THEN env
    ELSE FirstFile(Guesses, fs)

\* _find_tla2tools_jar; env is $TLA2TOOLS_JAR stripped
_find_tla2tools_jar(explicit, env, fs) ==
    IF explicit # "" THEN (IF explicit \in fs THEN explicit ELSE NoPath)
    ELSE IF env # "" /\ env \in fs THEN env
    ELSE FirstFile(Guesses, fs)

\* mutant: the timeout is looked at before the counterexample file
ClassifyTimeoutFirst(trace_exists, timedout, code) ==
    IF timedout THEN "timeout"
    ELSE IF trace_exists THEN "fail"
    ELSE IF code = 0 THEN "pass"
    ELSE "error"

\* status
Classify(trace_exists, timedout, code) ==
    IF trace_exists THEN "fail"
    ELSE IF timedout THEN "timeout"
    ELSE IF code = 0 THEN "pass"
    ELSE "error"

\* the return value of _cmd after the manifest is written
ExitStatus(status) ==
    IF status = "pass" THEN ExitPass
    ELSE IF status = "fail" THEN ExitFail
    ELSE IF status = "timeout" THEN ExitTimeout
    ELSE ExitError

\* mutant: the flag is not set
TimeoutOutcomeNoFlag == [timed_out |-> FALSE, exit_code |-> TimeoutExitCode]

\* except subprocess.TimeoutExpired
TimeoutOutcome == [timed_out |-> TRUE, exit_code |-> TimeoutExitCode]

\* timeout=args.timeout_secs if args.timeout_secs and args.timeout_secs > 0 else None
HasTimeout(secs) == secs # 0 /\ secs > 0

Absent  == [t |-> "absent",  v |-> 0]
Garbage == [t |-> "garbage", v |-> 0]
Omitted == [t |-> "omitted", v |-> 0]

\* _summarize_trace: None when the file does not load as JSON or the
\* summarizer raises
_summarize_trace(trace, cap) ==
    IF trace.t = "garbage" THEN None
    ELSE LET r == summarize_counterexample_json(trace, cap)
         IN  IF IsError(r) THEN None ELSE r

\* What the child may leave at counterexample.json
TraceContents ==
    {Garbage, JNull,
     Document(JList(<<>>), None),
     Document(JList(<<PlainRecord(1), PlainRecord(2)>>), None)}

ExitCodes == {0, 1, 12}

RunIdle ==
    /\ pc = "idle" /\ args = None /\ files = {} /\ run_dir = "absent"
    /\ child = "none" /\ elapsed = 0 /\ trace_file = Absent /\ jar_path = NoPath
    /\ timed_out = FALSE /\ exit_code = -1 /\ manifest = Absent /\ stdout = Absent
    /\ stderr = "" /\ rc = -1

RunInit ==
    /\ pc = "start"
    /\ args \in [jar : {"", CliJar}, env_jar : {"", EnvJar},
                 timeout_secs : -1..MaxTimeout,
                 trace_max_steps : {JInt(1), JInt(DefaultTraceMaxSteps)}]
    /\ files \in SUBSET AllPaths
    /\ run_dir = "absent"
    /\ child = "none" /\ elapsed = 0 /\ trace_file = Absent /\ jar_path = NoPath
    /\ timed_out = FALSE /\ exit_code = -1   \* exit_code is not assigned yet
    /\ manifest = Absent /\ stdout = Absent /\ stderr = ""
    /\ rc = -1                               \* the process has not exited

\* _cmd up to `return 2`: spec, cfg and jar are looked up in this order
ValidateInputs ==
    /\ pc = "start"
    /\ LET found == _find_tla2tools_jar(args.jar, args.env_jar, files)
       IN  IF SpecPath \notin files
           THEN /\ stderr' = "spec not found" /\ rc' = ExitInputError
                /\ pc' = "exit" /\ UNCHANGED jar_path
           ELSE IF CfgPath \notin files
           THEN /\ stderr' = "cfg not found" /\ rc' = ExitInputError
                /\ pc' = "exit" /\ UNCHANGED jar_path
           ELSE IF found = NoPath
           THEN /\ stderr' = "tla2tools.jar not found. Set $TLA2TOOLS_JAR or pass --jar."
                /\ rc' = ExitInputError
                /\ pc' = "exit" /\ UNCHANGED jar_path
           ELSE /\ jar_path' = found /\ pc' = "mkdir" /\ UNCHANGED <<stderr, rc>>
    /\ UNCHANGED <<args, files, run_dir, child, elapsed, trace_file, timed_out,
                   exit_code, manifest, stdout, eqVars, sumVars>>

\* run_dir.mkdir(parents=True, exist_ok=False) and the metadir
CreateRunDir ==
    /\ pc = "mkdir"
    /\ run_dir' = "created"
    /\ pc' = "launch"
    /\ UNCHANGED <<args, files, child, elapsed, trace_file, jar_path, timed_out,
                   exit_code, manifest, stdout, stderr, rc, eqVars, sumVars>>

\* run_dir.mkdir raises (FileExistsError: a run of the same inputs in the
\* same second): nothing catches it
CreateRunDirFails ==
    /\ pc = "mkdir"
    /\ run_dir' = "exists"
    /\ stderr' = "Traceback"
    /\ rc' = UnhandledExit
    /\ pc' = "exit"
    /\ UNCHANGED <<args, files, child, elapsed, trace_file, jar_path, timed_out,
                   exit_code, manifest, stdout, eqVars, sumVars>>

\* subprocess.run starts the child
Launch ==
    /\ pc = "launch"
    /\ child' = "running"
    /\ elapsed' = 0
    /\ pc' = "waiting"
    /\ UNCHANGED <<args, files, run_dir, trace_file, jar_path, timed_out,
                   exit_code, manifest, stdout, stderr, rc, eqVars, sumVars>>

\* subprocess.run raises (FileNotFoundError: args.java cannot be started):
\* only TimeoutExpired is caught
LaunchFails ==
    /\ pc = "launch"
    /\ stderr' = "Traceback"
    /\ rc' = UnhandledExit
    /\ pc' = "exit"
    /\ UNCHANGED <<args, files, run_dir, child, elapsed, trace_file, jar_path,
                   timed_out, exit_code, manifest, stdout, eqVars, sumVars>>

\* A second passes while subprocess.run waits
Tick ==
    /\ pc = "waiting" /\ child = "running"
    /\ elapsed < MaxRun
    /\ HasTimeout(args.timeout_secs) => elapsed < args.timeout_secs
    /\ elapsed' = elapsed + 1
    /\ UNCHANGED <<pc, args, files, run_dir, child, trace_file, jar_path, timed_out,
                   exit_code, manifest, stdout, stderr, rc, eqVars, sumVars>>

\* The child dumps a counterexample (-dumpTrace json)
ChildWritesTrace ==
    /\ pc = "waiting" /\ child = "running"
    /\ trace_file = Absent
    /\ trace_file' \in TraceContents
    /\ UNCHANGED <<pc, args, files, run_dir, child, elapsed, jar_path, timed_out,
                   exit_code, manifest, stdout, stderr, rc, eqVars, sumVars>>

\* exit_code = p.returncode
ChildExits ==
    /\ pc = "waiting" /\ child = "running"
    /\ \E c \in ExitCodes : exit_code' = c
    /\ child' = "exited"
    /\ pc' = "finish"
    /\ UNCHANGED <<args, files, run_dir, elapsed, trace_file, jar_path, timed_out,
                   manifest, stdout, stderr, rc, eqVars, sumVars>>

\* subprocess.run kills the child at the timeout and raises TimeoutExpired
TimeoutExpired ==
    /\ pc = "waiting" /\ child = "running"
    /\ HasTimeout(args.timeout_secs) /\ elapsed >= args.timeout_secs
    /\ child' = "killed"
    /\ timed_out' = TimeoutOutcome.timed_out
    /\ exit_code' = TimeoutOutcome.exit_code
    /\ pc' = "finish"
    /\ UNCHANGED <<args, files, run_dir, elapsed, trace_file, jar_path,
                   manifest, stdout, stderr, rc, eqVars, sumVars>>

\* _cmd from trace_exists to the return: classify, summarize, write
\* summary.json, write standard output
Finish ==
    /\ pc = "finish"
    /\ LET trace_exists  == trace_file # Absent
           status        == Classify(trace_exists, timed_out, exit_code)
           trace_summary == IF trace_exists
                            THEN _summarize_trace(trace_file, args.trace_max_steps)
                            ELSE None
           summary == [t |-> "manifest",
                       v |-> [status    |-> status,
                              exit_code |-> exit_code,
                              timed_out |-> timed_out,
                              jar_path  |-> jar_path,
                              counterexample_json_path |->
                                  IF trace_exists THEN "counterexample.json" ELSE NoPath,
                              counterexample_summary |->
                                  IF IsNone(trace_summary) THEN Omitted ELSE trace_summary]]
       IN  /\ manifest' = summary
           /\ stdout' = summary
           /\ rc' = ExitStatus(status)
    /\ pc' = "exit"
    /\ UNCHANGED <<args, files, run_dir, child, elapsed, trace_file, jar_path,
                   timed_out, exit_code, stderr, eqVars, sumVars>>

-----------------------------------------------------------------------------
(* Specifications *)

Init == EqIdle /\ SumIdle /\ RunInit

Next ==
    \/ ValidateInputs
    \/ CreateRunDir
    \/ CreateRunDirFails
    \/ Launch
    \/ LaunchFails
    \/ Tick
    \/ ChildWritesTrace
    \/ ChildExits
    \/ TimeoutExpired
    \/ Finish

\* The runner
Spec == Init /\ [][Next]_vars

InitEq == a \in EqValues /\ b \in EqValues /\ eq = "pending" /\ SumIdle /\ RunIdle

\* _deep_equal over bounded JSON-like values
SpecEq == InitEq /\ [][Compare]_vars

InitDiff ==
    /\ \E m \in 0..MaxStates : \E sts \in [1..m -> DiffRecords] :
          doc = Document(JList(sts), None)
    /\ max_steps = None /\ out = Pending
    /\ EqIdle /\ RunIdle

\* The summarizer on traces whose variables change
SpecDiff == InitDiff /\ [][Summarize]_vars

InitEdges ==
    /\ \E m \in 1..MaxEdgeStates, n \in 0..MaxEdges :
          \E sts \in [1..m -> {PlainRecord(i) : i \in StateNums}], eds \in [1..n -> EdgeItems] :
             doc = Document(JList(sts), JList(eds))
    /\ max_steps \in {None, JInt(1)} /\ out = Pending
    /\ EqIdle /\ RunIdle

\* The summarizer on traces with edges
SpecEdges == InitEdges /\ [][Summarize]_vars

InitParse ==
    /\ \/ doc \in {JNull, JStr("doc"), JInt(1)}
       \/ \E sf \in {None, JStr("states"), JDict(EmptyMap)}, af \in ActionFields :
             doc \in Wrappings(Document(sf, af))
       \/ \E m \in 0..MaxStates, af \in ActionFields : \E sts \in [1..m -> StateItems] :
             doc \in Wrappings(Document(JList(sts), af))
    /\ max_steps \in Caps /\ out = Pending
    /\ EqIdle /\ RunIdle

\* The summarizer on documents of every shape
SpecParse == InitParse /\ [][Summarize]_vars

-----------------------------------------------------------------------------
(* Vocabulary of the claims *)

\* The object the summarizer works on, and its raw state and action lists
Unwrapped(d) ==
    IF IsDict(d) /\ "counterexample" \in DOMAIN d.v /\ IsDict(d.v["counterexample"])
    THEN d.v["counterexample"] ELSE d

RawStates(d) == Unwrapped(d).v["state"].v

RawActions(d) ==
    LET u == Unwrapped(d)
    IN  IF "action" \in DOMAIN u.v /\ IsList(u.v["action"]) THEN u.v["action"].v ELSE <<>>

\* A state record as the code takes it: a sequence of at least two elements,
\* an integer (or boolean) first and a mapping second
Parsable(item) ==
    /\ item.t = "list" /\ Len(item.v) >= 2
    /\ item.v[1].t \in {"int", "bool"} /\ item.v[2].t = "dict"

\* A state record as a pair of an integer and a mapping
StrictPair(item) ==
    /\ item.t = "list" /\ Len(item.v) = 2
    /\ item.v[1].t = "int" /\ item.v[2].t = "dict"

Conforming(e) ==
    /\ e.t = "list" /\ Len(e.v) >= 3
    /\ Parsable(e.v[1]) /\ Parsable(e.v[3])

EdgeFrom(e) == NumVal(e.v[1].v[1])
EdgeTo(e)   == NumVal(e.v[3].v[1])

Wrapped(p) == IF p.t = "dict" THEN p ELSE JDict([k \in {"_raw"} |-> p])

LassoIdx(es) == {j \in 1..Len(es) : Conforming(es[j]) /\ EdgeTo(es[j]) <= EdgeFrom(es[j])}
StepIdx(es)  == {j \in 1..Len(es) : Conforming(es[j]) /\ EdgeTo(es[j]) > EdgeFrom(es[j])}

Least(S) == CHOOSE x \in S : \A y \in S : x <= y

\* The trace: the parsable records in ascending state_number order, ties in
\* raw order
TraceOf(d) == SortByStateNumber(ParseStates(RawStates(d)))

StepsOf(o) == o.v.steps
RangeOf(sq) == {sq[i] : i \in 1..Len(sq)}

-----------------------------------------------------------------------------
(* Claims *)

\* C1: changed_vars of the first step is the sorted key list of the first
\* state of the trace; of a later step i, the sorted list of the keys of
\* states i-1 and i that are in only one of the two or whose values differ,
\* a key in only one of the two always listed, null value included.
C1_ChangedVarsByPresence ==
    out.t = "summary" =>
        LET tr == TraceOf(doc)
        IN  \A i \in 1..Len(StepsOf(out)) :
                StepsOf(out)[i].changed_vars =
                    IF i = 1 THEN Sorted(DOMAIN tr[1].v[2].v)
                    ELSE LET p == tr[i - 1].v[2].v
                             c == tr[i].v[2].v
                         IN  Sorted({k \in DOMAIN p \cup DOMAIN c :
                                        \/ k \notin DOMAIN p
                                        \/ k \notin DOMAIN c
                                        \/ ~StructEq(p[k], c[k])})

\* C2: a conforming edge with target <= source (self-loops included) never
\* supplies a step's action; lasso_edges holds exactly these edges as
\* {from, to, action}, once each, in raw order, and no edge with
\* target > source.
C2_LassoEdges ==
    out.t = "summary" =>
        LET es    == RawActions(doc)
            lasso == out.v.lasso_edges
        IN  /\ Len(lasso) = Cardinality(LassoIdx(es))
            /\ \A j \in LassoIdx(es) :
                 LET r == lasso[Cardinality({i \in LassoIdx(es) : i <= j})]
                 IN  /\ StructEq(r.from, es[j].v[1].v[1])
                     /\ StructEq(r.to, es[j].v[3].v[1])
                     /\ StructEq(r.action, Wrapped(es[j].v[2]))
            /\ \A k \in 1..Len(lasso) : NumVal(lasso[k].to) <= NumVal(lasso[k].from)
            /\ \A s \in RangeOf(StepsOf(out)) :
                 ~IsNone(s.action) =>
                    \E j \in StepIdx(es) :
                        /\ EdgeTo(es[j]) = NumVal(s.state_number)
                        /\ StructEq(s.action, Wrapped(es[j].v[2]))

\* C2 witness: two lasso edges were collected, one of them a self-loop on a
\* state whose step took its action from another edge
C2_Witness ==
    /\ out.t = "summary"
    /\ Len(out.v.lasso_edges) = 2
    /\ \E k \in 1..2, s \in RangeOf(StepsOf(out)) :
         /\ NumVal(out.v.lasso_edges[k].to) = NumVal(out.v.lasso_edges[k].from)
         /\ NumVal(out.v.lasso_edges[k].to) = NumVal(s.state_number)
         /\ ~IsNone(s.action)
         /\ ~StructEq(s.action, out.v.lasso_edges[k].action)

\* C8: a step's action is the payload (wrapped as {"_raw": payload} when it
\* is no object) of the first edge in raw order whose target is the step's
\* state_number and greater than its source, and absent when there is none.
C8_FirstEdgeWins ==
    out.t = "summary" =>
        LET es == RawActions(doc)
        IN  \A s \in RangeOf(StepsOf(out)) :
                LET cand == {j \in StepIdx(es) : EdgeTo(es[j]) = NumVal(s.state_number)}
                IN  IF cand = {} THEN IsNone(s.action)
                    ELSE StructEq(s.action, Wrapped(es[Least(cand)].v[2]))

\* C8 witness: two edges with different payloads lead to the state of an
\* emitted step, the first of them with a payload that is no object
C8_Witness ==
    /\ out.t = "summary"
    /\ \E s \in RangeOf(StepsOf(out)) :
         LET es   == RawActions(doc)
             cand == {j \in StepIdx(es) : EdgeTo(es[j]) = NumVal(s.state_number)}
         IN  /\ Cardinality(cand) >= 2
             /\ \E j \in cand : ~StructEq(es[j].v[2], es[Least(cand)].v[2])
             /\ es[Least(cand)].v[2].t # "dict"
             /\ "_raw" \in DOMAIN s.action.v

\* C5 as stated: the counted records are the pairs of an integer and a
\* mapping.
C5_CountsStrictPairs ==
    out.t = "summary" =>
        out.v.states_total =
            Cardinality({i \in 1..Len(RawStates(doc)) : StrictPair(RawStates(doc)[i])})

\* C5 as amended: with N the number of elements of `state` that are a
\* sequence of at least two elements, an integer or boolean first and a
\* mapping second: states_total = N; without a cap steps_emitted = N =
\* length of steps; with a cap 0 < k < N exactly the first k steps of the
\* sorted trace are emitted and states_total is still N.
C5_Totals ==
    out.t = "summary" =>
        LET raw == RawStates(doc)
            N   == Cardinality({i \in 1..Len(raw) : Parsable(raw[i])})
            st  == StepsOf(out)
        IN  /\ out.v.states_total = N
            /\ out.v.steps_emitted = Len(st)
            /\ IsNone(max_steps) => Len(st) = N
            /\ (~IsNone(max_steps) /\ max_steps.v > 0 /\ max_steps.v < N) =>
                   /\ Len(st) = max_steps.v
                   /\ \A i \in 1..Len(st) :
                        /\ st[i].idx = i
                        /\ StructEq(st[i].state_number, TraceOf(doc)[i].v[1])

\* C5 witness: a cap of 1 cut a trace of at least two records, one of them
\* with a third element, beside an element that was dropped
C5_Witness ==
    /\ out.t = "summary"
    /\ max_steps = JInt(1)
    /\ out.v.steps_emitted = 1
    /\ out.v.states_total >= 2
    /\ \E i, j \in 1..Len(RawStates(doc)) :
         /\ Parsable(RawStates(doc)[i]) /\ Len(RawStates(doc)[i].v) = 3
         /\ ~Parsable(RawStates(doc)[j])

\* C7: the summarizer fails with MalformedInput exactly when the unwrapped
\* document is no object or its `state` is missing or no sequence, with
\* EmptyTrace exactly when `state` is a sequence none of whose elements
\* parses, and returns a summary for every other document.
C7_FailureCases ==
    out.t # "pending" =>
        LET u         == Unwrapped(doc)
            malformed == \/ u.t # "dict"
                         \/ "state" \notin DOMAIN u.v
                         \/ u.v["state"].t # "list"
            empty     == /\ ~malformed
                         /\ \A i \in 1..Len(u.v["state"].v) : ~Parsable(u.v["state"].v[i])
        IN  /\ malformed => (out.t = "error" /\ out.v = "MalformedInput")
            /\ empty => (out.t = "error" /\ out.v = "EmptyTrace")
            /\ (~malformed /\ ~empty) => out.t = "summary"

\* C7 witness: a summary came out of a document with a dropped state
\* element and a malformed edge
C7_Witness ==
    /\ out.t = "summary"
    /\ \E i \in 1..Len(RawStates(doc)) : ~Parsable(RawStates(doc)[i])
    /\ \E j \in 1..Len(RawActions(doc)) : ~Conforming(RawActions(doc)[j])

\* C6: _deep_equal answers equal exactly for structurally equal values.
C6_DeepEqualIsStructural ==
    eq \in {"equal", "different"} => ((eq = "equal") <=> StructEq(a, b))

\* Runner vocabulary: the run is over and the child had been started
ChildEnded == pc = "exit" /\ child \in {"exited", "killed"}

ManifestWritten == manifest.t = "manifest"

NotFoundReported ==
    /\ stderr = "tla2tools.jar not found. Set $TLA2TOOLS_JAR or pass --jar."
    /\ rc = 2
    /\ run_dir = "absent"
    /\ child = "none"
    /\ pc = "exit"

\* Index of the first existing file of a sequence of locations, 0 if none
FirstIdx(locs) ==
    IF \E i \in 1..Len(locs) : locs[i] \in files
    THEN Least({i \in 1..Len(locs) : locs[i] \in files})
    ELSE 0

Given(path) == IF path # "" THEN <<path>> ELSE <<>>

\* C3: once the child has exited or been timed out, status and process exit
\* code follow, in this order: counterexample file exists -> fail, 10; else
\* timed out -> timeout, 11; else child exit code 0 -> pass, 0; else
\* error, 12.
C3_StatusPriority ==
    ChildEnded =>
        /\ ManifestWritten
        /\ LET st == manifest.v.status
           IN  IF trace_file # Absent THEN st = "fail" /\ rc = 10
               ELSE IF timed_out THEN st = "timeout" /\ rc = 11
               ELSE IF exit_code = 0 THEN st = "pass" /\ rc = 0
               ELSE st = "error" /\ rc = 12

\* C3 witness: the child left a counterexample file and exited non-zero
C3_Witness ==
    /\ ChildEnded
    /\ child = "exited" /\ exit_code = 12
    /\ trace_file # Absent
    /\ manifest.v.status = "fail" /\ rc = 10

\* C4: every invocation that found spec, cfg and jar ends with the manifest
\* in summary.json and on standard output, whatever the later steps do, and
\* without counterexample_summary when the summarization fails.
C4_ManifestAlways ==
    (pc = "exit" /\ jar_path # NoPath) =>
        /\ ManifestWritten
        /\ stdout = manifest

\* C9 as stated: a timeout always ends in status timeout and exit code 11.
C9_TimeoutStatus ==
    (pc = "exit" /\ child = "killed") =>
        /\ manifest.v.timed_out /\ manifest.v.exit_code = 124
        /\ manifest.v.status = "timeout" /\ rc = 11

\* C9 as amended: the runner waits on the child no longer than the timeout;
\* when it is exceeded the child is terminated and the manifest records
\* timed_out = true and exit_code = 124; status is timeout and the process
\* exits with 11 when no counterexample file exists, and status is fail and
\* the process exits with 10 when one exists.
C9_Timeout ==
    /\ (child = "running" /\ args.timeout_secs > 0) => elapsed <= args.timeout_secs
    /\ (pc = "exit" /\ child = "killed") =>
          /\ ManifestWritten
          /\ manifest.v.timed_out /\ manifest.v.exit_code = 124
          /\ IF trace_file = Absent
             THEN manifest.v.status = "timeout" /\ rc = 11
             ELSE manifest.v.status = "fail" /\ rc = 10

\* C9 witness: the child was killed at the timeout after it had written a
\* counterexample file
C9_Witness ==
    /\ pc = "exit" /\ child = "killed"
    /\ elapsed = args.timeout_secs
    /\ trace_file # Absent
    /\ manifest.v.timed_out /\ manifest.v.status = "fail"

\* C10 as stated: the jar is the first existing file among --jar,
\* $TLA2TOOLS_JAR and the conventional locations, in this order, and
\* artifact-not-found is reported exactly when none of them exists.
C10_FirstOfAll ==
    (pc # "start" /\ SpecPath \in files /\ CfgPath \in files) =>
        LET locs == Given(args.jar) \o Given(args.env_jar) \o Guesses
        IN  IF FirstIdx(locs) = 0 THEN NotFoundReported
            ELSE jar_path = locs[FirstIdx(locs)] /\ ~NotFoundReported

\* C10 as amended: a given --jar is the only location looked at; without
\* it the jar is the first existing file among $TLA2TOOLS_JAR and the
\* conventional locations, in this order; artifact-not-found (remediation
\* message, exit code 2, no run directory, no child) is reported exactly
\* when none of the locations looked at is an existing file.
C10_JarSearch ==
    (pc # "start" /\ SpecPath \in files /\ CfgPath \in files) =>
        LET locs == IF args.jar # "" THEN <<args.jar>>
                    ELSE Given(args.env_jar) \o Guesses
        IN  IF FirstIdx(locs) = 0 THEN NotFoundReported
            ELSE jar_path = locs[FirstIdx(locs)] /\ ~NotFoundReported

\* C10 witness: --jar names no file while $TLA2TOOLS_JAR does, and
\* artifact-not-found was reported
C10_Witness ==
    /\ SpecPath \in files /\ CfgPath \in files
    /\ args.jar # "" /\ args.jar \notin files
    /\ args.env_jar # "" /\ args.env_jar \in files
    /\ NotFoundReported

====
